---- MODULE Spec2Model ----
(***************************************************************************)
(* Model of the py-serial codec core (src/core/encoding_handler.py): the   *)
(* EncodingHandler built on the codecs incremental decoders for GBK and    *)
(* UTF-8, and the hex/byte converters.  Bytes are integers 0..255, text is *)
(* a sequence of Unicode code points, a str of hex text is a sequence of   *)
(* one-character strings.                                                  *)
(***************************************************************************)
EXTENDS Integers, Sequences, FiniteSets, TLC

VARIABLES handler, last, fresh, chunking, hexrun, textrun

\* the serial worker, the device, the window and the signals between them
VARIABLES serial, running, mutex, wpc, upc, device, queue, btn_open,
          receive_mode, readLog, shown, hist

\* the window's other settings and the state of its controls
VARIABLES window

workerVars == <<serial, running, mutex, wpc, upc, device, queue, btn_open,
                receive_mode, readLog, shown, hist, window>>

vars == <<handler, last, fresh, chunking, hexrun, textrun, workerVars>>

(***************************************************************************)
(* Bounds of the model and the input sets drawn from them.                 *)
(***************************************************************************)
MaxChunkLen == 2

MaxSplitLen == 4

MaxHexLen == 3

MaxHexTextLen == 4

MaxTextLen == 3

\* chunks the worker reads in one run of the program
MaxReads == 2

\* successful open_port calls in one run of the program
MaxOpens == 2

\* '0' and the bytes 80 B2 E2 F0.  In UTF-8: an ASCII byte, two continuation
\* bytes, a 3-byte and a 4-byte lead byte.  In GBK: an ASCII byte that is no
\* trail byte, a byte that is a trail byte but starts no character, and
\* three bytes that are both lead and trail bytes.
ByteAlphabet == {48, 128, 178, 226, 240}

\* 00 0A 10 9C AB FF
HexByteAlphabet == {0, 10, 16, 156, 171, 255}

\* characters of a pasted hex text: digits in both cases, a space and
\* letters that are no hex digits
HexTextAlphabet == {"A", "B", "c", "0", "7", " ", "Z", "g"}

\* '0', U+6D4B, U+20AC, U+D800, U+1F600: in GBK the first two are
\* representable; in UTF-8 all but the lone surrogate U+D800
TextAlphabet == {48, 27979, 8364, 55296, 128512}

\* what one read of the device returns: '0', or the first byte of a GBK
\* character
ReadChunks == {<<48>>, <<178>>}

SeqsUpTo(S, n) == UNION {[1..k -> S] : k \in 0..n}

Chunks == SeqsUpTo(ByteAlphabet, MaxChunkLen)

Drop(s, n) == SubSeq(s, n + 1, Len(s))

(***************************************************************************)
(* The codecs the handler is built on.                                     *)
(***************************************************************************)
\* U+FFFD, what errors='replace' writes for an undecodable unit
Placeholder == 65533

EncodingNames == {"gbk", "GBK", "utf8", "UTF8"}

\* str.lower() on the encoding names
Lower(name) ==
    CASE name = "GBK" -> "gbk"
      [] name = "UTF8" -> "utf8"
      [] name = "UTF-8" -> "utf-8"
      [] OTHER -> name

\* str.replace('-', '') on the encoding names
RemoveDash(name) ==
    IF name = "utf-8" THEN "utf8" ELSE name

\* the codec the registry finds for an encoding name
CodecOf(name) == IF name = "gbk" THEN "gbk" ELSE "utf8"

IsContinuationByte(b) == b >= 128 /\ b <= 191

Char(n, cp) == [kind |-> "char", n |-> n, cp |-> cp]

Invalid(n) == [kind |-> "err", n |-> n, cp |-> 0]

TooFew == [kind |-> "more", n |-> 0, cp |-> 0]

\* The UTF-8 decoder's step at the head of the non-empty byte string s:
\* a character of n bytes, an invalid unit of n bytes, or unexpected end of
\* data.
Utf8Unit(s) ==
    LET ch == s[1]
        n == Len(s)
        bad3(c2) == ~IsContinuationByte(c2)
                    \/ (IF c2 < 160 THEN ch = 224 ELSE ch = 237)
        bad4(c2) == ~IsContinuationByte(c2)
                    \/ (IF c2 < 144 THEN ch = 240 ELSE ch = 244)
    IN  CASE ch < 128 -> Char(1, ch)
          [] ch >= 128 /\ ch < 194 -> Invalid(1)
          [] ch >= 194 /\ ch < 224 ->
                IF n < 2 THEN TooFew
                ELSE IF ~IsContinuationByte(s[2]) THEN Invalid(1)
                ELSE Char(2, (ch % 32) * 64 + (s[2] % 64))
          [] ch >= 224 /\ ch < 240 ->
                IF n < 2 THEN TooFew
                ELSE IF bad3(s[2]) THEN Invalid(1)
                ELSE IF n < 3 THEN TooFew
                ELSE IF ~IsContinuationByte(s[3]) THEN Invalid(2)
                ELSE Char(3, (ch % 16) * 4096 + (s[2] % 64) * 64 + (s[3] % 64))
          [] ch >= 240 /\ ch < 245 ->
                IF n < 2 THEN TooFew
                ELSE IF bad4(s[2]) THEN Invalid(1)
                ELSE IF n < 3 THEN TooFew
                ELSE IF ~IsContinuationByte(s[3]) THEN Invalid(2)
                ELSE IF n < 4 THEN TooFew
                ELSE IF ~IsContinuationByte(s[4]) THEN Invalid(3)
                ELSE Char(4, (ch % 8) * 262144 + (s[2] % 64) * 4096
                                + (s[3] % 64) * 64 + (s[4] % 64))
          [] OTHER -> Invalid(1)

\* a truncated surrogate (ED A0..BF at the end of the data) is left for
\* the next call by the UTF-8 decoder when the call is not final
TruncatedSurrogate(s) ==
    Len(s) = 2 /\ s[1] = 237 /\ s[2] >= 160 /\ s[2] <= 191

InRange(b, lo, hi) == b >= lo /\ b <= hi

\* the general GBK trail bytes: 40..7E and 80..FE
GbkTrail(b) == InRange(b, 64, 126) \/ InRange(b, 128, 254)

\* the byte pairs the GBK codec maps to a character
GbkMapped(dc1, dc2) ==
    CASE InRange(dc1, 129, 160) -> GbkTrail(dc2)
      [] dc1 = 161 -> InRange(dc2, 161, 254)
      [] dc1 = 162 -> \/ InRange(dc2, 161, 170) \/ InRange(dc2, 177, 226)
                      \/ InRange(dc2, 229, 238) \/ InRange(dc2, 241, 252)
      [] dc1 = 163 -> InRange(dc2, 161, 254)
      [] dc1 = 164 -> InRange(dc2, 161, 243)
      [] dc1 = 165 -> InRange(dc2, 161, 246)
      [] dc1 = 166 -> \/ InRange(dc2, 161, 184) \/ InRange(dc2, 193, 216)
                      \/ InRange(dc2, 224, 235) \/ InRange(dc2, 238, 242)
                      \/ InRange(dc2, 244, 245)
      [] dc1 = 167 -> InRange(dc2, 161, 193) \/ InRange(dc2, 209, 241)
      [] dc1 = 168 -> \/ InRange(dc2, 64, 126) \/ InRange(dc2, 128, 149)
                      \/ InRange(dc2, 161, 187) \/ InRange(dc2, 189, 190)
                      \/ dc2 = 192 \/ InRange(dc2, 197, 233)
      [] dc1 = 169 -> \/ InRange(dc2, 64, 87) \/ InRange(dc2, 89, 90)
                      \/ dc2 = 92 \/ InRange(dc2, 96, 126)
                      \/ InRange(dc2, 128, 136) \/ dc2 = 150
                      \/ InRange(dc2, 164, 239)
      [] InRange(dc1, 170, 175) -> InRange(dc2, 64, 126) \/ InRange(dc2, 128, 160)
      [] InRange(dc1, 176, 214) -> GbkTrail(dc2)
      [] dc1 = 215 -> InRange(dc2, 64, 126) \/ InRange(dc2, 128, 249)
      [] InRange(dc1, 216, 247) -> GbkTrail(dc2)
      [] InRange(dc1, 248, 253) -> InRange(dc2, 64, 126) \/ InRange(dc2, 128, 160)
      [] dc1 = 254 -> InRange(dc2, 64, 79)
      [] OTHER -> FALSE

\* the code point of a mapped pair, for the pairs over ByteAlphabet
GbkCodePoint(dc1, dc2) ==
    CASE dc1 = 178 /\ dc2 = 128 -> 30652
      [] dc1 = 178 /\ dc2 = 178 -> 33162
      [] dc1 = 178 /\ dc2 = 226 -> 27979
      [] dc1 = 178 /\ dc2 = 240 -> 25286
      [] dc1 = 226 /\ dc2 = 128 -> 37413
      [] dc1 = 226 /\ dc2 = 178 -> 29536
      [] dc1 = 226 /\ dc2 = 226 -> 24534
      [] dc1 = 226 /\ dc2 = 240 -> 24629
      [] dc1 = 240 /\ dc2 = 128 -> 39242
      [] dc1 = 240 /\ dc2 = 178 -> 40489
      [] dc1 = 240 /\ dc2 = 226 -> 30132
      [] dc1 = 240 /\ dc2 = 240 -> 30183

\* a GBK step that reports a lone lead byte as invalid instead of waiting
GbkUnitNoHold(s) ==
    LET c == s[1]
    IN  IF c < 128 THEN Char(1, c)
        ELSE IF Len(s) < 2 THEN Invalid(1)
        ELSE IF GbkMapped(c, s[2]) THEN Char(2, GbkCodePoint(c, s[2]))
        ELSE Invalid(1)

\* The GBK decoder's step at the head of the non-empty byte string s.
GbkUnit(s) ==
    LET c == s[1]
    IN  IF c < 128 THEN Char(1, c)
        ELSE IF Len(s) < 2 THEN TooFew
        ELSE IF GbkMapped(c, s[2]) THEN Char(2, GbkCodePoint(c, s[2]))
        ELSE Invalid(1)

\* One step of a codec on s; with final set the end of the data is an
\* error that covers all the bytes left.
CodecUnit(codec, s, final) ==
    LET u == IF codec = "gbk" THEN GbkUnit(s) ELSE Utf8Unit(s)
    IN  IF u.kind = "more" /\ final THEN Invalid(Len(s))
        ELSE IF codec = "utf8" /\ ~final /\ u.kind = "err" /\ TruncatedSurrogate(s)
             THEN TooFew
        ELSE u

RECURSIVE CodecLoop(_, _, _, _, _, _)
\* The codec's decoding loop over s under an error policy: the text, the
\* bytes left undecoded, how often the error handler ran, and whether the
\* strict policy raised.
CodecLoop(codec, s, errors, final, text, errs) ==
    IF s = <<>>
    THEN [text |-> text, buffer |-> <<>>, errs |-> errs, fault |-> FALSE]
    ELSE LET u == CodecUnit(codec, s, final)
         IN  CASE u.kind = "char" ->
                    CodecLoop(codec, Drop(s, u.n), errors, final,
                              Append(text, u.cp), errs)
               [] u.kind = "more" ->
                    [text |-> text, buffer |-> s, errs |-> errs, fault |-> FALSE]
               [] u.kind = "err" ->
                    IF errors = "strict"
                    THEN [text |-> text, buffer |-> <<>>, errs |-> errs + 1,
                          fault |-> TRUE]
                    ELSE CodecLoop(codec, Drop(s, u.n), errors, final,
                                   IF errors = "replace"
                                   THEN Append(text, Placeholder) ELSE text,
                                   errs + 1)

\* codecs.getincrementaldecoder(encoding)('ignore')
NewDecoder(encoding) ==
    [codec |-> CodecOf(encoding), errors |-> "ignore", buffer |-> <<>>]

\* a variant that forgets the bytes carried over from the previous call
IncrementalDecodeNoCarry(decoder, data, final) ==
    CodecLoop(decoder.codec, data, decoder.errors, final, <<>>, 0)

\* decoder.decode(data, final): the bytes carried over are decoded in
\* front of data
IncrementalDecode(decoder, data, final) ==
    CodecLoop(decoder.codec, decoder.buffer \o data, decoder.errors, final, <<>>, 0)

\* bytes.decode(encoding, errors)
BytesDecode(encoding, data, errors) ==
    CodecLoop(CodecOf(encoding), data, errors, TRUE, <<>>, 0)

(***************************************************************************)
(* EncodingHandler.                                                        *)
(***************************************************************************)
\* EncodingHandler.__init__
EncodingHandler(name) ==
    [encoding |-> Lower(name), decoder |-> NewDecoder(Lower(name))]

\* EncodingHandler.reset
reset(h) == [h EXCEPT !.decoder = NewDecoder(h.encoding)]

\* a setter that stores the new encoding and keeps the old decoder
set_encoding_noreset(h, value) ==
    IF Lower(value) # h.encoding
    THEN [h EXCEPT !.encoding = Lower(value)]
    ELSE h

\* EncodingHandler.encoding (setter)
set_encoding(h, value) ==
    IF Lower(value) # h.encoding
    THEN reset([h EXCEPT !.encoding = Lower(value)])
    ELSE h

\* a decode that ignores its final argument
decode_nofinal(h, data, final) ==
    LET r == IncrementalDecode(h.decoder, data, FALSE)
    IN  [h |-> [h EXCEPT !.decoder.buffer = r.buffer], text |-> r.text,
         errs |-> r.errs, fellback |-> FALSE, raised |-> FALSE]

\* a decode without the incremental decoder and without the handler
decode_direct(h, data, final) ==
    LET r == BytesDecode(h.encoding, data, "strict")
    IN  [h |-> h, text |-> r.text, errs |-> r.errs, fellback |-> FALSE,
         raised |-> r.fault]

\* EncodingHandler.decode: the handler after the call, the text returned,
\* whether the except branch ran and whether an exception left the call
decode(h, data, final) ==
    LET r == IncrementalDecode(h.decoder, data, final)
        d == BytesDecode(h.encoding, data, "replace")
    IN  IF r.fault
        THEN [h |-> reset(h), text |-> d.text, errs |-> d.errs,
              fellback |-> TRUE, raised |-> d.fault]
        ELSE [h |-> [h EXCEPT !.decoder.buffer = r.buffer], text |-> r.text,
              errs |-> r.errs, fellback |-> FALSE, raised |-> FALSE]

\* an _on_receive_coding_changed that leaves the handler alone
on_receive_coding_kept(h, coding) == h

\* MainWindow._on_receive_coding_changed on the handler
on_receive_coding_changed(h, coding) ==
    reset(set_encoding(h, RemoveDash(Lower(coding))))

(***************************************************************************)
(* The handler as a state machine: any sequence of decode, reset and       *)
(* encoding changes.  last records the latest call; fresh is a handler     *)
(* created with the new encoding at the latest change of codec and given   *)
(* the same calls since.                                                   *)
(***************************************************************************)
Call(op, arg, final, pre, text, errs, fellback, raised) ==
    [op |-> op, arg |-> arg, final |-> final, pre |-> pre, text |-> text,
     errs |-> errs, fellback |-> fellback, raised |-> raised]

NoFresh == [active |-> FALSE, h |-> EncodingHandler("gbk"), held |-> FALSE,
            text |-> <<>>]

IdleChunking == [pc |-> "idle"]

IdleHex == [pc |-> "idle"]

IdleText == [pc |-> "idle"]

\* the record of the last open_port or write_data call
NoCall == [op |-> "none", fault |-> FALSE, ret |-> FALSE, sig |-> "none"]

\* MainWindow.__init__ and _init_ui: GBK and HEX mode on both sides, the
\* send button disabled, the port settings editable
InitWindow ==
    [receive_coding |-> "GBK", send_mode |-> "HEX", send_coding |-> "GBK",
     send_enabled |-> FALSE, config_enabled |-> TRUE]

\* SerialWorker.__init__ and MainWindow.__init__: no port, no thread, the
\* button reads 'open', the receive mode is HEX
InitWorker ==
    /\ serial = "None"
    /\ running = FALSE
    /\ mutex = "free"
    /\ wpc = "idle"
    /\ upc = [pc |-> "idle", caller |-> "none"]
    /\ device = "ok"
    /\ queue = <<>>
    /\ btn_open = "open"
    /\ receive_mode = "HEX"
    /\ readLog = <<>>
    /\ shown = <<>>
    /\ hist = [emitted |-> {}, carryAtOpen |-> FALSE, stopGiven |-> FALSE,
               opens |-> 0, call |-> NoCall, disc |-> "none"]
    /\ window = InitWindow

InitHandler ==
    /\ handler = EncodingHandler("gbk")
    /\ last = Call("init", "gbk", FALSE, EncodingHandler("gbk"), <<>>, 0, FALSE, FALSE)
    /\ fresh = NoFresh

Init ==
    /\ InitHandler
    /\ chunking = IdleChunking
    /\ hexrun = IdleHex
    /\ textrun = IdleText
    /\ InitWorker

\* fresh after an encoding change from h to h2 requested with name
FreshAfterChange(h, h2, name, mirrored) ==
    IF CodecOf(h2.encoding) # CodecOf(h.encoding)
    THEN [active |-> TRUE, h |-> EncodingHandler(name),
          held |-> h.decoder.buffer # <<>>, text |-> <<>>]
    ELSE IF fresh.active THEN [fresh EXCEPT !.h = mirrored, !.text = <<>>]
    ELSE fresh

Decode ==
    \E data \in Chunks, final \in BOOLEAN :
        LET r == decode(handler, data, final)
            f == decode(fresh.h, data, final)
        IN  /\ handler' = r.h
            /\ last' = Call("decode", data, final, handler, r.text, r.errs,
                            r.fellback, r.raised)
            /\ fresh' = IF fresh.active
                        THEN [fresh EXCEPT !.h = f.h, !.text = f.text]
                        ELSE fresh
            /\ UNCHANGED <<chunking, hexrun, textrun, workerVars>>

Reset ==
    /\ handler' = reset(handler)
    /\ last' = Call("reset", <<>>, FALSE, handler, <<>>, 0, FALSE, FALSE)
    /\ fresh' = IF fresh.active
                THEN [fresh EXCEPT !.h = reset(fresh.h), !.text = <<>>]
                ELSE fresh
    /\ UNCHANGED <<chunking, hexrun, textrun, workerVars>>

SetEncoding ==
    \E value \in EncodingNames :
        LET h2 == set_encoding(handler, value)
        IN  /\ handler' = h2
            /\ last' = Call("set_encoding", value, FALSE, handler, <<>>, 0,
                            FALSE, FALSE)
            /\ fresh' = FreshAfterChange(handler, h2, value,
                                         set_encoding(fresh.h, value))
            /\ UNCHANGED <<chunking, hexrun, textrun, workerVars>>

OnReceiveCodingChanged ==
    \E coding \in {"GBK", "UTF-8"} :
        LET h2 == on_receive_coding_changed(handler, coding)
        IN  /\ handler' = h2
            /\ last' = Call("receive_coding_changed", coding, FALSE, handler,
                            <<>>, 0, FALSE, FALSE)
            /\ fresh' = FreshAfterChange(handler, h2, RemoveDash(Lower(coding)),
                                         on_receive_coding_changed(fresh.h, coding))
            /\ UNCHANGED <<chunking, hexrun, textrun, workerVars>>

Next ==
    \/ Decode
    \/ Reset
    \/ SetEncoding
    \/ OnReceiveCodingChanged

Spec == Init /\ [][Next]_vars

(***************************************************************************)
(* The two encodings as the standards define them, for stating what the    *)
(* handler is to do: the complete characters and their proper prefixes.    *)
(***************************************************************************)
\* a well-formed UTF-8 byte sequence of one character (Unicode table 3-7)
WellFormedUtf8(s) ==
    LET n == Len(s)
        second(lo, hi) == InRange(s[2], lo, hi)
        conts(from) == \A i \in from..n : InRange(s[i], 128, 191)
    IN  \/ n = 1 /\ s[1] < 128
        \/ n = 2 /\ InRange(s[1], 194, 223) /\ conts(2)
        \/ n = 3 /\ conts(3)
                 /\ \/ s[1] = 224 /\ second(160, 191)
                    \/ InRange(s[1], 225, 236) /\ second(128, 191)
                    \/ s[1] = 237 /\ second(128, 159)
                    \/ InRange(s[1], 238, 239) /\ second(128, 191)
        \/ n = 4 /\ conts(3)
                 /\ \/ s[1] = 240 /\ second(144, 191)
                    \/ InRange(s[1], 241, 243) /\ second(128, 191)
                    \/ s[1] = 244 /\ second(128, 143)

\* a non-empty proper prefix of a well-formed multi-byte UTF-8 sequence
ProperPrefixUtf8(p) ==
    LET n == Len(p)
        second(lo, hi) == n < 2 \/ InRange(p[2], lo, hi)
        third == n < 3 \/ InRange(p[3], 128, 191)
    IN  \/ n = 1 /\ InRange(p[1], 194, 223)
        \/ n \in 1..2
           /\ \/ p[1] = 224 /\ second(160, 191)
              \/ InRange(p[1], 225, 236) /\ second(128, 191)
              \/ p[1] = 237 /\ second(128, 159)
              \/ InRange(p[1], 238, 239) /\ second(128, 191)
        \/ n \in 1..3 /\ third
           /\ \/ p[1] = 240 /\ second(144, 191)
              \/ InRange(p[1], 241, 243) /\ second(128, 191)
              \/ p[1] = 244 /\ second(128, 143)

\* the bytes of one complete character of the codec
IsCharacter(codec, s) ==
    IF codec = "gbk"
    THEN \/ Len(s) = 1 /\ s[1] < 128
         \/ Len(s) = 2 /\ GbkMapped(s[1], s[2])
    ELSE WellFormedUtf8(s)

\* a non-empty proper prefix of a multi-byte character of the codec
IsProperPrefix(codec, p) ==
    IF codec = "gbk"
    THEN Len(p) = 1 /\ \E t \in 0..255 : GbkMapped(p[1], t)
    ELSE ProperPrefixUtf8(p)

\* the code point of the complete character s
CodePointOf(codec, s) ==
    IF Len(s) = 1 THEN s[1]
    ELSE IF codec = "gbk" THEN GbkCodePoint(s[1], s[2])
    ELSE IF Len(s) = 2 THEN (s[1] - 192) * 64 + (s[2] - 128)
    ELSE IF Len(s) = 3
         THEN (s[1] - 224) * 4096 + (s[2] - 128) * 64 + (s[3] - 128)
    ELSE (s[1] - 240) * 262144 + (s[2] - 128) * 4096 + (s[3] - 128) * 64
         + (s[4] - 128)

NotText == <<-1>>

RECURSIVE TextOf(_, _)
\* the text of x when x is a run of complete characters, NotText otherwise
TextOf(codec, x) ==
    IF x = <<>> THEN <<>>
    ELSE LET ns == {n \in 1..4 : n <= Len(x) /\ IsCharacter(codec, SubSeq(x, 1, n))}
         IN  IF ns = {} THEN NotText
             ELSE LET n == CHOOSE m \in ns : TRUE
                      rest == TextOf(codec, Drop(x, n))
                  IN  IF rest = NotText THEN NotText
                      ELSE <<CodePointOf(codec, SubSeq(x, 1, n))>> \o rest

Count(text, c) == Cardinality({i \in 1..Len(text) : text[i] = c})

\* the bytes the latest decode call worked on: the carry, then the chunk
LastWhole == last.pre.decoder.buffer \o last.arg

LastCodec == last.pre.decoder.codec

\* the latest call was a non-final decode whose bytes are a run of complete
\* characters followed by a proper prefix of k bytes
EndsWithPrefix(k) ==
    /\ last.op = "decode" /\ ~last.final
    /\ k \in 1..Len(LastWhole)
    /\ IsProperPrefix(LastCodec, Drop(LastWhole, Len(LastWhole) - k))
    /\ TextOf(LastCodec, SubSeq(LastWhole, 1, Len(LastWhole) - k)) # NotText

(***************************************************************************)
(* Properties of the handler.                                              *)
(***************************************************************************)
\* C2: a non-final decode whose bytes end with an incomplete but valid
\* prefix of a multi-byte character returns exactly the text of the
\* complete characters before it, reports nothing for the prefix, does not
\* raise, keeps the prefix as the carry, and the call that supplies the
\* remaining bytes returns the character.
IncompletePrefixHeld ==
    \A k \in 1..(3 + MaxChunkLen) :
        EndsWithPrefix(k) =>
            LET n == Len(LastWhole)
                p == Drop(LastWhole, n - k)
            IN  /\ last.text = TextOf(LastCodec, SubSeq(LastWhole, 1, n - k))
                /\ last.errs = 0
                /\ ~last.raised
                /\ handler.decoder.buffer = p
                /\ \A s \in Chunks :
                       IsCharacter(LastCodec, p \o s) =>
                           LET r == decode(handler, s, FALSE)
                           IN  /\ r.text = <<CodePointOf(LastCodec, p \o s)>>
                               /\ r.h.decoder.buffer = <<>>
                               /\ ~r.raised

\* C2 witness: characters were returned and a prefix of a character was
\* kept by the same call
IncompletePrefixHeldCase ==
    /\ \E k \in 1..3 : EndsWithPrefix(k)
    /\ last.arg # <<>>
    /\ last.text # <<>>
    /\ handler.decoder.buffer # <<>>

\* C3 (as claimed): the carry holds at most 3 bytes and is empty or a
\* proper prefix of a multi-byte character of the active encoding, so it
\* holds no complete character and no byte invalid for the encoding.
CarryIsValidPrefix ==
    /\ Len(handler.decoder.buffer) <= 3
    /\ \/ handler.decoder.buffer = <<>>
       \/ IsProperPrefix(handler.decoder.codec, handler.decoder.buffer)

\* C4 (as claimed): decode does not raise and its text holds one
\* placeholder for each invalid unit met in the bytes.
MalformedReplaced ==
    last.op = "decode" =>
        /\ ~last.raised
        /\ Count(last.text, Placeholder) = last.errs

\* C5: after a decode call with final set the carry is empty.
FinalEmptiesCarry ==
    (last.op = "decode" /\ last.final) => handler.decoder.buffer = <<>>

\* C5 witness: a final call that had carried bytes to resolve and no
\* character to make of them
FinalEmptiesCarryCase ==
    /\ last.op = "decode" /\ last.final
    /\ last.pre.decoder.buffer # <<>>
    /\ last.errs > 0
    /\ last.text = <<>>

\* C6: a change from one codec to the other empties the carry, and every
\* later decode returns what a handler freshly created with the new
\* encoding returns for the same calls.
SwitchDiscardsCarry ==
    /\ (/\ last.op \in {"set_encoding", "receive_coding_changed"}
        /\ CodecOf(last.pre.encoding) # CodecOf(handler.encoding))
           => /\ handler.decoder.buffer = <<>>
              /\ handler.decoder.codec = CodecOf(handler.encoding)
    /\ (fresh.active /\ last.op = "decode")
           => /\ last.text = fresh.text
              /\ handler = fresh.h

\* C6 witness: bytes were held at the change and a later decode returned
\* text
SwitchDiscardsCarryCase ==
    /\ fresh.active /\ fresh.held
    /\ last.op = "decode"
    /\ last.text # <<>>

\* C7 (as claimed): after every call of the encoding setter the carry is
\* empty.
SetterClearsCarry ==
    last.op = "set_encoding" => handler.decoder.buffer = <<>>

\* C8: decode never lets an exception out; when the incremental step
\* faults the decoder is cleared and the text is the direct decode of the
\* chunk with substitution.
DecodeNeverRaises ==
    last.op = "decode" =>
        /\ ~last.raised
        /\ last.fellback =>
              /\ handler.decoder.buffer = <<>>
              /\ last.text = BytesDecode(last.pre.encoding, last.arg, "replace").text

\* C8 witness: a decode call met bytes that are invalid for the encoding
DecodeNeverRaisesCase ==
    /\ last.op = "decode"
    /\ last.errs > 0
    /\ ~last.raised

\* C20: a decode call in which the decoder met an invalid byte sequence
\* returns with an empty carry buffer.
ErrorResetsCarry ==
    (last.op = "decode" /\ last.errs > 0) => handler.decoder.buffer = <<>>

(***************************************************************************)
(* Chunking: the same bytes given to one handler in two calls and to       *)
(* another handler in one call.                                            *)
(***************************************************************************)
Splits ==
    {<<b1, b2>> \in SeqsUpTo(ByteAlphabet, MaxSplitLen)
                    \X SeqsUpTo(ByteAlphabet, MaxSplitLen) :
        Len(b1) + Len(b2) <= MaxSplitLen}

InitChunk ==
    /\ InitHandler
    /\ hexrun = IdleHex
    /\ textrun = IdleText
    /\ InitWorker
    /\ \E name \in {"gbk", "utf8"}, bs \in Splits :
          chunking = [pc |-> "run", b1 |-> bs[1], b2 |-> bs[2],
                      split |-> EncodingHandler(name), calls |-> 0,
                      out1 |-> <<>>, carry1 |-> <<>>, out2 |-> <<>>,
                      whole |-> EncodingHandler(name), done |-> FALSE,
                      out |-> <<>>]

\* decode(b1, final=False), then decode(b2, final=False)
SplitDecode ==
    /\ chunking.pc = "run"
    /\ chunking.calls < 2
    /\ LET first == chunking.calls = 0
           r == decode(chunking.split, IF first THEN chunking.b1 ELSE chunking.b2,
                       FALSE)
       IN  chunking' =
              IF first
              THEN [chunking EXCEPT !.split = r.h, !.calls = 1, !.out1 = r.text,
                                    !.carry1 = r.h.decoder.buffer]
              ELSE [chunking EXCEPT !.split = r.h, !.calls = 2, !.out2 = r.text]
    /\ UNCHANGED <<handler, last, fresh, hexrun, textrun, workerVars>>

\* decode(b1 + b2, final=False)
WholeDecode ==
    /\ chunking.pc = "run"
    /\ ~chunking.done
    /\ LET r == decode(chunking.whole, chunking.b1 \o chunking.b2, FALSE)
       IN  chunking' = [chunking EXCEPT !.whole = r.h, !.done = TRUE,
                                        !.out = r.text]
    /\ UNCHANGED <<handler, last, fresh, hexrun, textrun, workerVars>>

NextChunk ==
    \/ SplitDecode
    \/ WholeDecode

SpecChunk == InitChunk /\ [][NextChunk]_vars

\* C1: for every byte sequence and every split of it, the texts of the two
\* calls concatenated equal the text of the single call, and both handlers
\* are left with the same carry, for GBK and for UTF-8.
ChunkingInvariance ==
    (chunking.pc = "run" /\ chunking.calls = 2 /\ chunking.done) =>
        /\ chunking.out1 \o chunking.out2 = chunking.out
        /\ chunking.split.decoder.buffer = chunking.whole.decoder.buffer

\* C1 witness: the split fell inside a multi-byte character that the
\* second call completed
ChunkingInvarianceCase ==
    /\ chunking.pc = "run" /\ chunking.calls = 2 /\ chunking.done
    /\ chunking.carry1 # <<>>
    /\ IsProperPrefix(chunking.split.decoder.codec, chunking.carry1)
    /\ chunking.out2 # <<>>
    /\ chunking.out2[1] > 127

(***************************************************************************)
(* Hex text.  A str is a sequence of one-character strings.                *)
(***************************************************************************)
UpperHexDigits ==
    <<"0", "1", "2", "3", "4", "5", "6", "7", "8", "9", "A", "B", "C", "D", "E", "F">>

LowerHexDigits ==
    <<"0", "1", "2", "3", "4", "5", "6", "7", "8", "9", "a", "b", "c", "d", "e", "f">>

\* f'{b:X}', without the zero padding
FormatX(b) ==
    IF b < 16 THEN <<UpperHexDigits[b + 1]>>
    ELSE <<UpperHexDigits[(b \div 16) + 1], UpperHexDigits[(b % 16) + 1]>>

\* f'{b:02X}'
Format02X(b) ==
    <<UpperHexDigits[(b \div 16) + 1], UpperHexDigits[(b % 16) + 1]>>

RECURSIVE Join(_, _)
\* sep.join(parts)
Join(sep, parts) ==
    IF parts = <<>> THEN <<>>
    ELSE IF Len(parts) = 1 THEN parts[1]
    ELSE parts[1] \o sep \o Join(sep, Tail(parts))

\* a bytes_to_hex that forgets the separator after the last byte
bytes_to_hex_nosep(data) ==
    IF data # <<>>
    THEN Join(<<" ">>, [i \in 1..Len(data) |-> Format02X(data[i])])
    ELSE <<>>

\* bytes_to_hex
bytes_to_hex(data) ==
    IF data # <<>>
    THEN Join(<<" ">>, [i \in 1..Len(data) |-> Format02X(data[i])]) \o <<" ">>
    ELSE <<>>

\* the characters [A-Fa-f0-9]
IsHexChar(c) ==
    \E i \in 1..16 : UpperHexDigits[i] = c \/ LowerHexDigits[i] = c

HexValue(c) ==
    (CHOOSE i \in 1..16 : UpperHexDigits[i] = c \/ LowerHexDigits[i] = c) - 1

\* int(byte_str, 16) raises ValueError unless byte_str is hex digits
IntBase16Raises(byte_str) == \E i \in 1..Len(byte_str) : ~IsHexChar(byte_str[i])

RECURSIVE IntBase16(_)
\* int(byte_str, 16)
IntBase16(byte_str) ==
    IF byte_str = <<>> THEN 0
    ELSE IntBase16(SubSeq(byte_str, 1, Len(byte_str) - 1)) * 16
         + HexValue(byte_str[Len(byte_str)])

RECURSIVE ParsePairs(_)
\* the loop over range(0, len(clean_str), 2)
ParsePairs(clean_str) ==
    IF clean_str = <<>> THEN <<>>
    ELSE LET byte_str == SubSeq(clean_str, 1, IF Len(clean_str) < 2 THEN 1 ELSE 2)
             rest == ParsePairs(Drop(clean_str, 2))
         IN  IF IntBase16Raises(byte_str) THEN rest
             ELSE <<IntBase16(byte_str)>> \o rest

\* a hex_to_bytes that does not pad an odd number of digits
hex_to_bytes_nopad(hex_str) ==
    LET clean_str == SelectSeq(hex_str, IsHexChar)
    IN  IF clean_str = <<>> THEN <<>> ELSE ParsePairs(clean_str)

\* hex_to_bytes
hex_to_bytes(hex_str) ==
    LET clean_str == SelectSeq(hex_str, IsHexChar)
    IN  IF clean_str = <<>> THEN <<>>
        ELSE ParsePairs(IF Len(clean_str) % 2 # 0
                        THEN clean_str \o <<"0">> ELSE clean_str)

InitHex ==
    /\ InitHandler
    /\ chunking = IdleChunking
    /\ textrun = IdleText
    /\ InitWorker
    /\ \E data \in SeqsUpTo(HexByteAlphabet, MaxHexLen) :
          hexrun = [pc |-> "bytes", data |-> data, hex |-> <<>>, back |-> <<>>]

BytesToHex ==
    /\ hexrun.pc = "bytes"
    /\ hexrun' = [hexrun EXCEPT !.pc = "hex", !.hex = bytes_to_hex(hexrun.data)]
    /\ UNCHANGED <<handler, last, fresh, chunking, textrun, workerVars>>

HexToBytes ==
    /\ hexrun.pc = "hex"
    /\ hexrun' = [hexrun EXCEPT !.pc = "back", !.back = hex_to_bytes(hexrun.hex)]
    /\ UNCHANGED <<handler, last, fresh, chunking, textrun, workerVars>>

NextHex ==
    \/ BytesToHex
    \/ HexToBytes

SpecHex == InitHex /\ [][NextHex]_vars

\* C9: hex_to_bytes(bytes_to_hex(b)) = b for every byte sequence b, the
\* empty one included.
HexRoundTrip ==
    hexrun.pc = "back" => hexrun.back = hexrun.data

\* C9 witness: a round trip of several bytes, one of them below 16
HexRoundTripCase ==
    /\ hexrun.pc = "back"
    /\ Len(hexrun.data) >= 2
    /\ \E i \in 1..Len(hexrun.data) : hexrun.data[i] < 16

\* the value of an uppercase hexadecimal digit, -1 for any other character
UpperDigitValue(c) ==
    IF \E i \in 1..16 : UpperHexDigits[i] = c
    THEN (CHOOSE i \in 1..16 : UpperHexDigits[i] = c) - 1
    ELSE -1

\* C10: bytes_to_hex renders each byte, in order, as two uppercase
\* hexadecimal digits and one space: 3n characters for n bytes, the last a
\* space when n > 0, and the empty string for no bytes.
HexRendering ==
    hexrun.pc \in {"hex", "back"} =>
        /\ Len(hexrun.hex) = 3 * Len(hexrun.data)
        /\ \A i \in 1..Len(hexrun.data) :
              /\ UpperDigitValue(hexrun.hex[3 * i - 2]) >= 0
              /\ UpperDigitValue(hexrun.hex[3 * i - 1]) >= 0
              /\ 16 * UpperDigitValue(hexrun.hex[3 * i - 2])
                    + UpperDigitValue(hexrun.hex[3 * i - 1]) = hexrun.data[i]
              /\ hexrun.hex[3 * i] = " "
        /\ hexrun.data = <<>> => hexrun.hex = <<>>

\* C10 witness: several bytes rendered, with a letter digit among them
HexRenderingCase ==
    /\ hexrun.pc = "hex"
    /\ Len(hexrun.data) >= 2
    /\ \E i \in 1..Len(hexrun.hex) : hexrun.hex[i] \in {"A", "B", "C", "D", "E", "F"}

(***************************************************************************)
(* hex_to_bytes on any text.                                               *)
(***************************************************************************)
InitParse ==
    /\ InitHandler
    /\ chunking = IdleChunking
    /\ textrun = IdleText
    /\ InitWorker
    /\ \E hex_str \in SeqsUpTo(HexTextAlphabet, MaxHexTextLen) :
          hexrun = [pc |-> "text", data |-> <<>>, hex |-> hex_str, back |-> <<>>]

ParseHex ==
    /\ hexrun.pc = "text"
    /\ hexrun' = [hexrun EXCEPT !.pc = "parsed", !.back = hex_to_bytes(hexrun.hex)]
    /\ UNCHANGED <<handler, last, fresh, chunking, textrun, workerVars>>

NextParse == ParseHex

SpecParse == InitParse /\ [][NextParse]_vars

\* the value of each hexadecimal digit
DigitValue ==
    [c \in {"0", "1", "2", "3", "4", "5", "6", "7", "8", "9",
            "A", "B", "C", "D", "E", "F", "a", "b", "c", "d", "e", "f"} |->
        CASE c = "0" -> 0 [] c = "1" -> 1 [] c = "2" -> 2 [] c = "3" -> 3
          [] c = "4" -> 4 [] c = "5" -> 5 [] c = "6" -> 6 [] c = "7" -> 7
          [] c = "8" -> 8 [] c = "9" -> 9
          [] c \in {"A", "a"} -> 10 [] c \in {"B", "b"} -> 11
          [] c \in {"C", "c"} -> 12 [] c \in {"D", "d"} -> 13
          [] c \in {"E", "e"} -> 14 [] c \in {"F", "f"} -> 15]

IsDigit(c) == c \in DOMAIN DigitValue

\* the hexadecimal digits of a text, in order
DigitsOf(hex_str) == SelectSeq(hex_str, IsDigit)

\* the reference parser: drop what is no hex digit, read an odd last digit
\* as if a '0' followed it, one byte for each pair of digits
ReferenceParse(hex_str) ==
    LET ds == DigitsOf(hex_str)
    IN  [i \in 1..((Len(ds) + 1) \div 2) |->
            16 * DigitValue[ds[2 * i - 1]]
            + (IF 2 * i <= Len(ds) THEN DigitValue[ds[2 * i]] ELSE 0)]

\* C11: hex_to_bytes gives the bytes of the reference parser for every
\* text: ceil(d/2) bytes for d hex digits, none for a text without hex
\* digits.
HexParseIsReference ==
    hexrun.pc = "parsed" =>
        /\ hexrun.back = ReferenceParse(hexrun.hex)
        /\ Len(hexrun.back) = (Len(DigitsOf(hexrun.hex)) + 1) \div 2
        /\ DigitsOf(hexrun.hex) = <<>> => hexrun.back = <<>>

\* C11 witness: a text with a character to drop and an odd number of
\* digits
HexParseIsReferenceCase ==
    /\ hexrun.pc = "parsed"
    /\ Len(DigitsOf(hexrun.hex)) = 3
    /\ Len(hexrun.hex) > 3
    /\ hexrun.back # <<>>

(***************************************************************************)
(* text_to_bytes.  A str is a sequence of code points.                     *)
(***************************************************************************)
\* the bytes the UTF-8 encoder writes for a code point, <<>> for a
\* surrogate, which it refuses
Utf8Bytes(cp) ==
    CASE cp < 128 -> <<cp>>
      [] cp >= 128 /\ cp < 2048 -> <<192 + (cp \div 64), 128 + (cp % 64)>>
      [] cp >= 55296 /\ cp <= 57343 -> <<>>
      [] cp >= 2048 /\ cp < 65536 /\ ~(cp >= 55296 /\ cp <= 57343) ->
            <<224 + (cp \div 4096), 128 + ((cp \div 64) % 64), 128 + (cp % 64)>>
      [] OTHER -> <<240 + (cp \div 262144), 128 + ((cp \div 4096) % 64),
                    128 + ((cp \div 64) % 64), 128 + (cp % 64)>>

\* the bytes the GBK encoder writes for a code point of TextAlphabet, <<>>
\* for one it has no mapping for
GbkBytes(cp) ==
    CASE cp < 128 -> <<cp>>
      [] cp = 27979 -> <<178, 226>>
      [] cp = 8364 -> <<>>
      [] cp = 55296 -> <<>>
      [] cp = 128512 -> <<>>

RECURSIVE EncodeLoop(_, _, _, _)
\* the codec's encoding loop over text under an error policy
EncodeLoop(codec, text, errors, out) ==
    IF text = <<>> THEN [bytes |-> out, fault |-> FALSE]
    ELSE LET b == IF codec = "gbk" THEN GbkBytes(text[1]) ELSE Utf8Bytes(text[1])
         IN  IF b # <<>> THEN EncodeLoop(codec, Tail(text), errors, out \o b)
             ELSE IF errors = "strict" THEN [bytes |-> out, fault |-> TRUE]
             ELSE EncodeLoop(codec, Tail(text), errors,
                             IF errors = "replace" THEN out \o <<63>> ELSE out)

\* str.encode(encoding, errors)
StrEncode(encoding, text, errors) ==
    EncodeLoop(CodecOf(encoding), text, errors, <<>>)

\* a text_to_bytes without the except branch
text_to_bytes_strict(text, encoding) ==
    LET r == StrEncode(Lower(encoding), text, "strict")
    IN  [bytes |-> r.bytes, raised |-> r.fault]

\* text_to_bytes: the bytes returned and whether an exception left the call
text_to_bytes(text, encoding) ==
    LET r == StrEncode(Lower(encoding), text, "strict")
        f == StrEncode(Lower(encoding), text, "replace")
    IN  IF r.fault THEN [bytes |-> f.bytes, raised |-> f.fault]
        ELSE [bytes |-> r.bytes, raised |-> FALSE]

InitText ==
    /\ InitHandler
    /\ chunking = IdleChunking
    /\ hexrun = IdleHex
    /\ InitWorker
    /\ \E text \in SeqsUpTo(TextAlphabet, MaxTextLen), coding \in {"GBK", "UTF-8"} :
          textrun = [pc |-> "text", text |-> text, coding |-> coding,
                     bytes |-> <<>>, raised |-> FALSE]

TextToBytes ==
    /\ textrun.pc = "text"
    /\ LET r == text_to_bytes(textrun.text, textrun.coding)
       IN  textrun' = [textrun EXCEPT !.pc = "encoded", !.bytes = r.bytes,
                                      !.raised = r.raised]
    /\ UNCHANGED <<handler, last, fresh, chunking, hexrun, workerVars>>

NextText == TextToBytes

SpecText == InitText /\ [][NextText]_vars

\* the code points each encoding has a byte sequence for
Representable(coding, cp) ==
    IF coding = "GBK" THEN cp \in {48, 27979}
    ELSE ~(cp >= 55296 /\ cp <= 57343)

RECURSIVE ExpectedBytes(_, _)
\* each representable character as the strict encoder writes it alone, a
\* '?' for each other character
ExpectedBytes(coding, text) ==
    IF text = <<>> THEN <<>>
    ELSE (IF Representable(coding, text[1])
          THEN StrEncode(Lower(coding), <<text[1]>>, "strict").bytes
          ELSE <<63>>)
         \o ExpectedBytes(coding, Tail(text))

\* C12: text_to_bytes never raises, in GBK and in UTF-8: it returns the
\* strict encoding of every representable character and a placeholder byte
\* for every other character.
TextToBytesTotal ==
    textrun.pc = "encoded" =>
        /\ ~textrun.raised
        /\ textrun.bytes = ExpectedBytes(textrun.coding, textrun.text)

\* C12 witness: a text with a representable multi-byte character and a
\* character the encoding cannot represent
TextToBytesTotalCase ==
    /\ textrun.pc = "encoded"
    /\ \E i \in 1..Len(textrun.text) : ~Representable(textrun.coding, textrun.text[i])
    /\ \E i \in 1..Len(textrun.text) : textrun.text[i] = 27979
    /\ Len(textrun.bytes) > Len(textrun.text)

(***************************************************************************)
(* The worker thread, the device, and the window's handlers.              *)
(*                                                                         *)
(* serial is the worker's _serial: "None", or a Serial object that is      *)
(* "open" or "closed".  wpc is the worker thread's position ("idle": not   *)
(* started or finished), upc the UI thread's position in a handler that    *)
(* blocks.  queue holds the signals the worker thread has emitted and the  *)
(* UI thread has not yet handled.                                          *)
(***************************************************************************)
is_open == serial = "open"

Signal(sig, id, data, cause) ==
    [sig |-> sig, id |-> id, data |-> data, cause |-> cause]

\* a signal emitted in the UI thread's event queue before the ones queued
\* earlier
PostFirst(q, s) == <<s>> \o q

\* a signal emitted by the worker thread is queued for the UI thread
Post(q, s) == Append(q, s)

\* the history after a signal: what was emitted and why, and for the
\* session whether port_disconnected was emitted once or again
Emitted(h, sig, cause) ==
    [h EXCEPT !.emitted = @ \cup {<<sig, cause>>},
              !.disc = IF sig # "port_disconnected" THEN @
                       ELSE IF @ = "none" THEN "one" ELSE "again"]

\* the history after a read of the device and its data_received
ReadDone(h) ==
    [h EXCEPT !.disc = IF @ = "none" THEN "none" ELSE "read_after"]

UiIdle == upc.pc = "idle"

Finished == wpc = "idle"

\* an _open_serial_port that takes the port for open after a fault
OpenSerialPortAnyway ==
    /\ UiIdle
    /\ btn_open = "open"
    /\ hist.opens < MaxOpens
    /\ serial' = IF device = "ok" THEN "open" ELSE serial
    /\ wpc' = IF Finished THEN "start" ELSE wpc
    /\ btn_open' = "close"
    /\ window' = [window EXCEPT !.send_enabled = TRUE,
                                !.config_enabled = FALSE]
    /\ hist' = IF device = "ok"
               THEN [hist EXCEPT
                        !.opens = @ + 1,
                        !.disc = "none",
                        !.carryAtOpen = handler.decoder.buffer # <<>>,
                        !.call = [op |-> "open_port", fault |-> FALSE,
                                  ret |-> TRUE, sig |-> "none"]]
               ELSE [Emitted(hist, "error_occurred", "open_fault") EXCEPT
                        !.opens = @ + 1,
                        !.call = [op |-> "open_port", fault |-> TRUE,
                                  ret |-> FALSE, sig |-> "error_occurred"]]
    /\ UNCHANGED <<running, mutex, upc, device, queue, receive_mode, readLog,
                   shown, handler, last, fresh, chunking, hexrun, textrun>>

\* _open_serial_port on a click on the button that reads 'open': open_port,
\* then start(), the button reads 'close', the send button is enabled and
\* the port settings are locked; on a fault error_occurred and the warning
OpenSerialPort ==
    /\ UiIdle
    /\ btn_open = "open"
    /\ hist.opens < MaxOpens
    /\ IF device = "ok"
       THEN /\ serial' = "open"
            /\ wpc' = IF Finished THEN "start" ELSE wpc
            /\ btn_open' = "close"
            /\ window' = [window EXCEPT !.send_enabled = TRUE,
                                        !.config_enabled = FALSE]
            /\ hist' = [hist EXCEPT
                   !.opens = @ + 1,
                   !.disc = "none",
                   !.carryAtOpen = handler.decoder.buffer # <<>>,
                   !.call = [op |-> "open_port", fault |-> FALSE,
                             ret |-> TRUE, sig |-> "none"]]
       ELSE /\ hist' = [Emitted(hist, "error_occurred", "open_fault") EXCEPT
                   !.call = [op |-> "open_port", fault |-> TRUE,
                             ret |-> FALSE, sig |-> "error_occurred"]]
            /\ UNCHANGED <<serial, wpc, btn_open, window>>
    /\ UNCHANGED <<running, mutex, upc, device, queue, receive_mode, readLog,
                   shown, handler, last, fresh, chunking, hexrun, textrun>>

\* close_port up to its wait(500)
close_port(caller) ==
    /\ running' = FALSE
    /\ upc' = [pc |-> "wait", caller |-> caller]
    /\ hist' = [hist EXCEPT !.stopGiven = ~Finished]

\* _close_serial_port on a click on the button that reads 'close'
CloseSerialPort ==
    /\ UiIdle
    /\ btn_open = "close"
    /\ close_port("user")
    /\ UNCHANGED <<serial, mutex, wpc, device, queue, btn_open, receive_mode,
                   readLog, shown, handler, last, fresh, chunking, hexrun,
                   textrun, window>>

\* _on_port_disconnected, queued by the worker thread
OnPortDisconnected ==
    /\ UiIdle
    /\ queue # <<>>
    /\ Head(queue).sig = "port_disconnected"
    /\ queue' = Tail(queue)
    /\ close_port("disconnected")
    /\ UNCHANGED <<serial, mutex, wpc, device, btn_open, receive_mode,
                   readLog, shown, handler, last, fresh, chunking, hexrun,
                   textrun, window>>

\* wait(500) gives up on a thread that does not end by itself: one that has
\* set _running again, or one that is blocked on the mutex
WaitTimesOut ==
    /\ ~Finished
    /\ running \/ (wpc = "lock" /\ mutex # "free")

\* close_port: wait(500) returns, and close() on a handle that is open
WaitAndClose ==
    /\ upc.pc = "wait"
    /\ Finished \/ WaitTimesOut
    /\ serial' = IF is_open THEN "closed" ELSE serial
    /\ upc' = [upc EXCEPT !.pc = "clear"]
    /\ UNCHANGED <<running, mutex, wpc, device, queue, btn_open, receive_mode,
                   readLog, shown, hist, handler, last, fresh, chunking,
                   hexrun, textrun, window>>

\* close_port's _serial = None and the rest of _close_serial_port
ClearHandle ==
    /\ upc.pc = "clear"
    /\ serial' = "None"
    /\ handler' = reset(handler)
    /\ btn_open' = "open"
    /\ window' = [window EXCEPT !.send_enabled = FALSE,
                                !.config_enabled = TRUE]
    /\ upc' = [pc |-> "idle", caller |-> "none"]
    /\ UNCHANGED <<running, mutex, wpc, device, queue, receive_mode, readLog,
                   shown, hist, last, fresh, chunking, hexrun, textrun>>

\* _on_send_clicked with a text to send, up to write_data's lock()
OnSendClicked ==
    /\ UiIdle
    /\ btn_open = "close"
    /\ is_open
    /\ upc' = [pc |-> "lock", caller |-> "send"]
    /\ UNCHANGED <<serial, running, mutex, wpc, device, queue, btn_open,
                   receive_mode, readLog, shown, hist, handler, last, fresh,
                   chunking, hexrun, textrun, window>>

\* a write_data that goes on to write without the mutex
WriteNoLock ==
    /\ upc.pc = "lock"
    /\ upc' = [upc EXCEPT !.pc = "write"]
    /\ UNCHANGED <<serial, running, mutex, wpc, device, queue, btn_open,
                   receive_mode, readLog, shown, hist, handler, last, fresh,
                   chunking, hexrun, textrun, window>>

\* write_data: self._mutex.lock()
WriteLock ==
    /\ upc.pc = "lock"
    /\ mutex = "free"
    /\ mutex' = "ui"
    /\ upc' = [upc EXCEPT !.pc = "write"]
    /\ UNCHANGED <<serial, running, wpc, device, queue, btn_open,
                   receive_mode, readLog, shown, hist, handler, last, fresh,
                   chunking, hexrun, textrun, window>>

\* a write_data that reports a fault as a disconnect
WriteFaultDisconnects ==
    /\ upc.pc = "write"
    /\ mutex' = "free"
    /\ upc' = [pc |-> "idle", caller |-> "none"]
    /\ hist' = IF device = "ok"
               THEN [hist EXCEPT !.call = [op |-> "write_data", fault |-> FALSE,
                                           ret |-> TRUE, sig |-> "none"]]
               ELSE [Emitted(hist, "port_disconnected", "write_fault") EXCEPT
                        !.call = [op |-> "write_data", fault |-> TRUE,
                                  ret |-> FALSE, sig |-> "port_disconnected"]]
    /\ UNCHANGED <<serial, running, wpc, device, queue, btn_open,
                   receive_mode, readLog, shown, handler, last, fresh,
                   chunking, hexrun, textrun, window>>

\* write_data: write(data), unlock(), and on a SerialException
\* error_occurred
Write ==
    /\ upc.pc = "write"
    /\ mutex' = "free"
    /\ upc' = [pc |-> "idle", caller |-> "none"]
    /\ hist' = IF device = "ok"
               THEN [hist EXCEPT !.call = [op |-> "write_data", fault |-> FALSE,
                                           ret |-> TRUE, sig |-> "none"]]
               ELSE [Emitted(hist, "error_occurred", "write_fault") EXCEPT
                        !.call = [op |-> "write_data", fault |-> TRUE,
                                  ret |-> FALSE, sig |-> "error_occurred"]]
    /\ UNCHANGED <<serial, running, wpc, device, queue, btn_open,
                   receive_mode, readLog, shown, handler, last, fresh,
                   chunking, hexrun, textrun, window>>

\* an _on_data_received that gives every chunk to the decoder
on_data_received_decoding(h, mode, data) ==
    LET r == decode(h, data, FALSE)
    IN  [h |-> r.h, kind |-> IF mode = "HEX" THEN "hex" ELSE "text",
         text |-> IF mode = "HEX" THEN bytes_to_hex(data) ELSE r.text]

\* _on_data_received: the handler after the call and the text appended to
\* the receive view, hex text or decoded text
on_data_received(h, mode, data) ==
    IF mode = "HEX"
    THEN [h |-> h, kind |-> "hex", text |-> bytes_to_hex(data)]
    ELSE LET r == decode(h, data, FALSE)
         IN  [h |-> r.h, kind |-> "text", text |-> r.text]

\* _on_receive_mode_changed on the handler
on_receive_mode_changed(h) == reset(h)

\* _on_data_received, queued by the worker thread
OnDataReceived ==
    /\ UiIdle
    /\ queue # <<>>
    /\ Head(queue).sig = "data_received"
    /\ queue' = Tail(queue)
    /\ shown' = Append(shown, Head(queue).id)
    /\ handler' = on_data_received(handler, receive_mode, Head(queue).data).h
    /\ UNCHANGED <<serial, running, mutex, wpc, upc, device, btn_open,
                   receive_mode, readLog, hist, last, fresh, chunking, hexrun,
                   textrun, window>>

\* _on_receive_mode_changed
OnReceiveModeChanged ==
    /\ UiIdle
    /\ receive_mode' = IF receive_mode = "HEX" THEN "TEXT" ELSE "HEX"
    /\ handler' = on_receive_mode_changed(handler)
    /\ UNCHANGED <<serial, running, mutex, wpc, upc, device, queue, btn_open,
                   readLog, shown, hist, last, fresh, chunking, hexrun,
                   textrun, window>>

\* a loop that goes on after the notification
KeepPolling(h) == /\ wpc' = "test"
                  /\ hist' = [h EXCEPT !.stopGiven = FALSE]

\* the worker thread ends: run() returns
Finish(h) == /\ wpc' = "idle"
             /\ hist' = [h EXCEPT !.stopGiven = FALSE]

\* run: self._running = True
RunBegin ==
    /\ wpc = "start"
    /\ running' = TRUE
    /\ wpc' = "test"
    /\ UNCHANGED <<serial, mutex, upc, device, queue, btn_open, receive_mode,
                   readLog, shown, hist, handler, last, fresh, chunking,
                   hexrun, textrun, window>>

\* run: while self._running and self._serial
LoopTest ==
    /\ wpc = "test"
    /\ IF running /\ serial # "None"
       THEN wpc' = "is_open" /\ hist' = hist
       ELSE Finish(hist)
    /\ UNCHANGED <<serial, running, mutex, upc, device, queue, btn_open,
                   receive_mode, readLog, shown, handler, last, fresh,
                   chunking, hexrun, textrun, window>>

\* run: if self._serial.is_open, and the else branch
CheckIsOpen ==
    /\ wpc = "is_open"
    /\ CASE serial = "open" ->
                wpc' = "in_waiting" /\ UNCHANGED <<queue, hist>>
         [] serial = "closed" ->
                /\ queue' = Post(queue, Signal("port_disconnected", 0, <<>>,
                                               "handle_closed"))
                /\ Finish(Emitted(hist, "port_disconnected", "handle_closed"))
         [] serial = "None" ->
                wpc' = "test" /\ UNCHANGED <<queue, hist>>
    /\ UNCHANGED <<serial, running, mutex, upc, device, btn_open,
                   receive_mode, readLog, shown, handler, last, fresh,
                   chunking, hexrun, textrun, window>>

\* run: if self._serial.in_waiting > 0.  On a handle that is closed or
\* whose device is gone the property raises; the exception is a
\* SerialException or another one, as the platform has it
CheckInWaiting ==
    /\ wpc = "in_waiting"
    /\ CASE serial = "None" ->
                wpc' = "test" /\ UNCHANGED <<queue, hist>>
         [] serial = "closed" \/ (serial = "open" /\ device = "lost") ->
                LET cause == IF serial = "closed" THEN "handle_closed"
                             ELSE "device_lost"
                IN  \/ /\ queue' = Post(queue, Signal("port_disconnected", 0,
                                                     <<>>, cause))
                       /\ Finish(Emitted(hist, "port_disconnected", cause))
                    \/ wpc' = "test" /\ UNCHANGED <<queue, hist>>
         [] serial = "open" /\ device = "ok" ->
                /\ \/ Len(readLog) < MaxReads /\ wpc' = "lock"
                   \/ wpc' = "test"
                /\ UNCHANGED <<queue, hist>>
    /\ UNCHANGED <<serial, running, mutex, upc, device, btn_open,
                   receive_mode, readLog, shown, handler, last, fresh,
                   chunking, hexrun, textrun, window>>

\* run: self._mutex.lock()
ReadLock ==
    /\ wpc = "lock"
    /\ mutex = "free"
    /\ mutex' = "worker"
    /\ wpc' = "read"
    /\ UNCHANGED <<serial, running, upc, device, queue, btn_open,
                   receive_mode, readLog, shown, hist, handler, last, fresh,
                   chunking, hexrun, textrun, window>>

\* run: data = self._serial.read(self._serial.in_waiting), unlock() and
\* data_received; an exception leaves before unlock()
Read ==
    /\ wpc = "read"
    /\ CASE serial = "None" ->
                /\ wpc' = "test"
                /\ UNCHANGED <<mutex, queue, readLog, hist>>
         [] serial = "closed" \/ (serial = "open" /\ device = "lost") ->
                LET cause == IF serial = "closed" THEN "handle_closed"
                             ELSE "device_lost"
                IN  /\ queue' = Post(queue, Signal("port_disconnected", 0,
                                                  <<>>, cause))
                    /\ Finish(Emitted(hist, "port_disconnected", cause))
                    /\ UNCHANGED <<mutex, readLog>>
         [] serial = "open" /\ device = "ok" ->
                \E data \in ReadChunks :
                    /\ readLog' = Append(readLog, data)
                    /\ mutex' = "free"
                    /\ queue' = Post(queue, Signal("data_received",
                                                  Len(readLog) + 1, data, "read"))
                    /\ wpc' = "test"
                    /\ hist' = ReadDone(hist)
    /\ UNCHANGED <<serial, running, upc, device, btn_open, receive_mode,
                   shown, handler, last, fresh, chunking, hexrun, textrun, window>>

\* the device is unplugged
DeviceLost ==
    /\ device = "ok"
    /\ device' = "lost"
    /\ UNCHANGED <<serial, running, mutex, wpc, upc, queue, btn_open,
                   receive_mode, readLog, shown, hist, handler, last, fresh,
                   chunking, hexrun, textrun, window>>

\* the device is plugged in again
DeviceBack ==
    /\ device = "lost"
    /\ device' = "ok"
    /\ UNCHANGED <<serial, running, mutex, wpc, upc, queue, btn_open,
                   receive_mode, readLog, shown, hist, handler, last, fresh,
                   chunking, hexrun, textrun, window>>

InitSerial ==
    /\ InitHandler
    /\ chunking = IdleChunking
    /\ hexrun = IdleHex
    /\ textrun = IdleText
    /\ InitWorker

WorkerNext ==
    \/ RunBegin
    \/ LoopTest
    \/ CheckIsOpen
    \/ CheckInWaiting
    \/ ReadLock
    \/ Read

UiNext ==
    \/ OpenSerialPort
    \/ CloseSerialPort
    \/ OnPortDisconnected
    \/ WaitAndClose
    \/ ClearHandle
    \/ OnSendClicked
    \/ WriteLock
    \/ Write
    \/ OnDataReceived
    \/ OnReceiveModeChanged

NextSerial == WorkerNext \/ UiNext \/ DeviceLost \/ DeviceBack

SpecSerial == InitSerial /\ [][NextSerial]_vars

\* the ids of the data_received signals of a queue, in order
RECURSIVE QueuedIds(_)
QueuedIds(q) ==
    IF q = <<>> THEN <<>>
    ELSE (IF Head(q).sig = "data_received" THEN <<Head(q).id>> ELSE <<>>)
         \o QueuedIds(Tail(q))

\* C13: the write of write_data and the read of the polling loop never
\* overlap: each is in flight only with the mutex held by its thread, and
\* the one UI thread has at most one write in flight.
MutexSerializes ==
    /\ ~(wpc = "read" /\ upc.pc = "write")
    /\ wpc = "read" => mutex = "worker"
    /\ upc.pc = "write" => mutex = "ui"

\* C13 witness: write_data waits for the mutex while the worker reads
MutexSerializesCase ==
    /\ wpc = "read"
    /\ upc.pc = "lock"
    /\ mutex = "worker"

\* C14: the chunks handled by _on_data_received, followed by the chunks
\* still queued, are the chunks in the order the worker read them: none
\* dropped, repeated or overtaken.
OrderPreserved ==
    shown \o QueuedIds(queue) = [i \in 1..Len(readLog) |-> i]

\* C14 witness: two chunks read in different sessions and both handled
OrderPreservedCase ==
    /\ Len(shown) = 2
    /\ hist.opens = 2
    /\ <<"port_disconnected", "device_lost">> \in hist.emitted

\* C15: a fault in open_port or write_data emits error_occurred and the
\* call returns failure, never port_disconnected; a device loss met by the
\* polling loop emits port_disconnected, never error_occurred.
FaultsReportedApart ==
    /\ hist.call.fault => (hist.call.sig = "error_occurred" /\ ~hist.call.ret)
    /\ \A e \in hist.emitted :
          /\ e[2] \in {"open_fault", "write_fault"} => e[1] = "error_occurred"
          /\ e[2] = "device_lost" => e[1] = "port_disconnected"

\* C15 witness: a write fault and a device loss met by the loop have both
\* been reported
FaultsReportedApartCase ==
    /\ hist.call.op = "write_data"
    /\ hist.call.fault
    /\ <<"port_disconnected", "device_lost">> \in hist.emitted

\* C16: no port_disconnected is emitted because close_port closed the
\* handle.
CloseIsSilent ==
    <<"port_disconnected", "handle_closed">> \notin hist.emitted

\* C18: the worker is inside an iteration that uses the handle only while
\* the handle is there and open.
HandleOpenWhileUsed ==
    wpc \in {"is_open", "in_waiting", "lock", "read"} => serial = "open"

\* C19: the carry buffer is empty whenever a session is opened.
CarryEmptyAtOpen ==
    ~hist.carryAtOpen

(***************************************************************************)
(* Cancellation.  stop() is part of the worker's interface; the window     *)
(* never calls it, so it is an action of this specification only.  The    *)
(* worker thread is scheduled, and the UI thread goes on with a handler    *)
(* it is in and with the signals queued for it; a thread that waits for    *)
(* the mutex gets it if the mutex is free again and again.  The user's     *)
(* clicks and the device are under no obligation.                          *)
(***************************************************************************)
\* stop
Stop ==
    /\ UiIdle
    /\ running' = FALSE
    /\ hist' = [hist EXCEPT !.stopGiven = ~Finished]
    /\ UNCHANGED <<serial, mutex, wpc, upc, device, queue, btn_open,
                   receive_mode, readLog, shown, handler, last, fresh,
                   chunking, hexrun, textrun, window>>

UiStep ==
    \/ WaitAndClose
    \/ ClearHandle
    \/ WriteLock
    \/ Write
    \/ OnDataReceived
    \/ OnPortDisconnected

NextCancel == NextSerial \/ Stop

SpecCancel ==
    /\ InitSerial
    /\ [][NextCancel]_vars
    /\ WF_vars(WorkerNext)
    /\ SF_vars(ReadLock)
    /\ WF_vars(UiStep)

\* C17: once the stop signal has been given to a worker thread that is
\* running, the thread eventually ends.
StopObserved ==
    hist.stopGiven ~> Finished

\* C22: the mutex is held only while the read of the loop or the write of
\* write_data is in progress.
MutexReleased ==
    mutex # "free" =>
        \/ mutex = "worker" /\ wpc = "read"
        \/ mutex = "ui" /\ upc.pc = "write"

\* C24: in one session the worker emits port_disconnected at most once,
\* and after it no device read and no data_received follow in that session.
DisconnectEndsPolling ==
    hist.disc \in {"none", "one"}

\* C24 witness: port_disconnected was emitted for a lost device, the thread
\* has ended and the session is still open
DisconnectEndsPollingCase ==
    /\ hist.disc = "one"
    /\ Finished
    /\ is_open
    /\ device = "lost"

(***************************************************************************)
(* write_data on a worker whose port is not open.  The window calls        *)
(* write_data only after its own is_open test, so this call is an action   *)
(* of this specification only.                                             *)
(***************************************************************************)
\* write_data: if not self.is_open: return False
WriteDataClosed ==
    /\ UiIdle
    /\ ~is_open
    /\ hist' = [hist EXCEPT !.call = [op |-> "write_data", fault |-> FALSE,
                                      ret |-> FALSE, sig |-> "none"]]
    /\ UNCHANGED <<serial, running, mutex, wpc, upc, device, queue, btn_open,
                   receive_mode, readLog, shown, handler, last, fresh,
                   chunking, hexrun, textrun, window>>

NextApi == NextSerial \/ WriteDataClosed

SpecApi == InitSerial /\ [][NextApi]_vars

\* C25: a failed open_port returns failure and emits error_occurred and
\* changes nothing else: no handle, no thread started, the window as it is
\* when closed; write_data on a port that is not open returns failure and
\* leaves the mutex, the device and the signals alone.
FailedOpenChangesNothing ==
    [][/\ (OpenSerialPort /\ device # "ok") =>
              /\ hist'.call = [op |-> "open_port", fault |-> TRUE,
                               ret |-> FALSE, sig |-> "error_occurred"]
              /\ <<"error_occurred", "open_fault">> \in hist'.emitted
              /\ serial' = serial
              /\ ~is_open'
              /\ wpc' = wpc
              /\ btn_open' = "open"
              /\ ~window'.send_enabled
              /\ window'.config_enabled
              /\ UNCHANGED <<running, mutex, upc, device, queue, receive_mode,
                             handler, window>>
       /\ WriteDataClosed =>
              /\ ~hist'.call.ret
              /\ hist'.call.sig = "none"
              /\ hist'.emitted = hist.emitted
              /\ UNCHANGED <<serial, running, mutex, wpc, upc, device, queue,
                             btn_open, window>>
      ]_vars

\* C25 witness: an open_port has failed after an earlier session; the port
\* is not open, no thread runs and the send button is disabled
FailedOpenChangesNothingCase ==
    /\ hist.call.op = "open_port"
    /\ hist.call.fault
    /\ hist.opens = 1
    /\ ~is_open
    /\ Finished
    /\ ~window.send_enabled

(***************************************************************************)
(* The window's receive and send settings: chunks arrive in any number,    *)
(* the user changes the four combo boxes in any order.  last records the   *)
(* latest handler call with the settings before it; fresh.h is a handler   *)
(* created anew at the latest change of receive mode or receive encoding   *)
(* and given the chunks handled in TEXT mode since, fresh.held whether a   *)
(* change of receive mode has met a carry.                                 *)
(***************************************************************************)
Settings == [handler |-> handler, receive_mode |-> receive_mode,
             window |-> window]

Event(op, data, kind, text) ==
    [op |-> op, data |-> data, pre |-> Settings, kind |-> kind, text |-> text]

\* _on_data_received
WindowDataReceived ==
    \E data \in Chunks :
        LET r == on_data_received(handler, receive_mode, data)
        IN  /\ handler' = r.h
            /\ last' = Event("data", data, r.kind, r.text)
            /\ fresh' = IF receive_mode = "HEX" THEN fresh
                        ELSE [fresh EXCEPT !.h = decode(fresh.h, data, FALSE).h]
            /\ UNCHANGED <<chunking, hexrun, textrun, workerVars>>

\* _on_receive_mode_changed: the combo box has two entries and reports a
\* change of the entry
WindowReceiveModeChanged ==
    /\ receive_mode' = IF receive_mode = "HEX" THEN "TEXT" ELSE "HEX"
    /\ handler' = on_receive_mode_changed(handler)
    /\ last' = Event("receive_mode", <<>>, "none", <<>>)
    /\ fresh' = [fresh EXCEPT
                    !.h = EncodingHandler(RemoveDash(Lower(window.receive_coding))),
                    !.held = @ \/ handler.decoder.buffer # <<>>]
    /\ UNCHANGED <<serial, running, mutex, wpc, upc, device, queue, btn_open,
                   readLog, shown, hist, chunking, hexrun, textrun, window>>

\* _on_receive_coding_changed
WindowReceiveCodingChanged ==
    \E coding \in {"GBK", "UTF-8"} \ {window.receive_coding} :
        /\ window' = [window EXCEPT !.receive_coding = coding]
        /\ handler' = on_receive_coding_changed(handler, coding)
        /\ last' = Event("receive_coding", <<>>, "none", <<>>)
        /\ fresh' = [fresh EXCEPT !.h = EncodingHandler(RemoveDash(Lower(coding)))]
        /\ UNCHANGED <<serial, running, mutex, wpc, upc, device, queue,
                       btn_open, receive_mode, readLog, shown, hist, chunking,
                       hexrun, textrun>>

\* _on_send_mode_changed
OnSendModeChanged ==
    /\ window' = [window EXCEPT
                     !.send_mode = IF @ = "HEX" THEN "TEXT" ELSE "HEX"]
    /\ last' = Event("send_mode", <<>>, "none", <<>>)
    /\ UNCHANGED <<serial, running, mutex, wpc, upc, device, queue, btn_open,
                   receive_mode, readLog, shown, hist, handler, fresh,
                   chunking, hexrun, textrun>>

\* _on_send_coding_changed
OnSendCodingChanged ==
    \E coding \in {"GBK", "UTF-8"} \ {window.send_coding} :
        /\ window' = [window EXCEPT !.send_coding = coding]
        /\ last' = Event("send_coding", <<>>, "none", <<>>)
        /\ UNCHANGED <<serial, running, mutex, wpc, upc, device, queue,
                       btn_open, receive_mode, readLog, shown, hist, handler,
                       fresh, chunking, hexrun, textrun>>

NextWindow ==
    \/ WindowDataReceived
    \/ WindowReceiveModeChanged
    \/ WindowReceiveCodingChanged
    \/ OnSendModeChanged
    \/ OnSendCodingChanged

SpecWindow == InitSerial /\ [][NextWindow]_vars

\* C21: the decoder's encoding is the receive encoding selected; a chunk
\* is shown as hex text in HEX mode and as the decoder's text otherwise; a
\* change of the receive encoding leaves the carry empty; a change of the
\* send mode or send encoding leaves handler, receive mode and receive
\* encoding as they were.
WindowSettingsApplied ==
    /\ window.receive_coding = "GBK" =>
          (handler.encoding = "gbk" /\ handler.decoder.codec = "gbk")
    /\ window.receive_coding = "UTF-8" =>
          (handler.encoding = "utf8" /\ handler.decoder.codec = "utf8")
    /\ last.op = "data" =>
          IF last.pre.receive_mode = "HEX"
          THEN last.kind = "hex" /\ last.text = bytes_to_hex(last.data)
          ELSE /\ last.kind = "text"
               /\ last.text = decode(last.pre.handler, last.data, FALSE).text
    /\ last.op = "receive_coding" => handler.decoder.buffer = <<>>
    /\ last.op \in {"send_mode", "send_coding"} =>
          /\ handler = last.pre.handler
          /\ receive_mode = last.pre.receive_mode
          /\ window.receive_coding = last.pre.window.receive_coding

\* C21 witness: a chunk decoded to text in UTF-8 after the send settings
\* were changed as well
WindowSettingsAppliedCase ==
    /\ last.op = "data"
    /\ last.pre.receive_mode = "TEXT"
    /\ window.receive_coding = "UTF-8"
    /\ window.send_coding = "UTF-8"
    /\ window.send_mode = "TEXT"
    /\ last.text # <<>>

\* C23: a chunk handled in HEX mode leaves the handler as it was, a change
\* of the receive mode empties the carry, and the handler is always the one
\* a new handler would be after only the chunks handled in TEXT mode since
\* the latest change.
HexChunksLeaveDecoder ==
    /\ (last.op = "data" /\ last.pre.receive_mode = "HEX") =>
          handler = last.pre.handler
    /\ last.op = "receive_mode" => handler.decoder.buffer = <<>>
    /\ handler = fresh.h

\* C23 witness: a chunk handled in HEX mode after a change of mode that met
\* a carry
HexChunksLeaveDecoderCase ==
    /\ last.op = "data"
    /\ last.pre.receive_mode = "HEX"
    /\ last.data # <<>>
    /\ fresh.held

====
